---- MODULE Spec2Model ----
(***************************************************************************)
(* LocalJSONDB (src/index.js): a JSON file holding an array of records,    *)
(* with create / read / update / delete / query / write on top of a full   *)
(* read-modify-write of the file.                                          *)
(*                                                                         *)
(* JSON.stringify and JSON.parse are modelled as a printer and a           *)
(* recursive-descent parser over the tokens of the text.  The runs of one  *)
(* instance hold the file as that sequence of tokens; the runs of two      *)
(* instances hold it as its bytes, written and read through UTF-8.         *)
(***************************************************************************)
EXTENDS Integers, Sequences, FiniteSets, TLC

(***************************************************************************)
(* Strings.  A JavaScript string is a sequence of UTF-16 code units, and   *)
(* so it is here: a sequence of numbers below 65536.  A string literal of  *)
(* this module becomes a JavaScript string by Units; the literals are made *)
(* of the units U+0020..U+007E other than U+0060.                          *)
(***************************************************************************)
\* The units a literal is made of, in the order of their codes.
Chars == " !\"#$%&'()*+,-./0123456789:;<=>?@ABCDEFGHIJKLMNOPQRSTUVWXYZ[\\]^_abcdefghijklmnopqrstuvwxyz{|}~"

IsHighSurrogate(u) == 55296 <= u /\ u <= 56319

IsLowSurrogate(u) == 56320 <= u /\ u <= 57343

RECURSIVE CodeTable(_, _)
\* The codes of the units at the places lo..hi of Chars, by unit: U+0020 is
\* at place 1, and U+0061 follows U+005F.
CodeTable(lo, hi) ==
    IF lo = hi THEN SubSeq(Chars, lo, lo) :> (IF lo <= 64 THEN 31 + lo ELSE 32 + lo)
    ELSE CodeTable(lo, (lo + hi) \div 2) @@ CodeTable((lo + hi) \div 2 + 1, hi)

\* The codes of the units of the literals, by unit.
AsciiCode == CodeTable(1, Len(Chars))

\* s.charCodeAt(0) for a literal s of one unit.
charCodeAt(c) == AsciiCode[c]

\* The JavaScript string of the literal s: its code units.
Units(s) == <<>> \o [i \in 1..Len(s) |-> charCodeAt(SubSeq(s, i, i))]

RECURSIVE Join(_, _, _)
\* The sequences parts[lo], ..., parts[hi], one after the other.
Join(parts, lo, hi) ==
    IF lo > hi THEN <<>>
    ELSE IF lo = hi THEN parts[lo]
    ELSE Join(parts, lo, (lo + hi) \div 2) \o Join(parts, (lo + hi) \div 2 + 1, hi)

(***************************************************************************)
(* JavaScript values.  Every value has the same shape so that any two      *)
(* values can be compared:  t is the type tag; n the number, when it is an *)
(* integer of magnitude below 2^31, and s the text of any other number     *)
(* (see Numbers below); s the code units of a string; m the members (of an *)
(* object: key/value pairs in insertion order; of an array: the elements,  *)
(* each with the empty key).                                               *)
(***************************************************************************)
Null == [t |-> "null", n |-> 0, s |-> <<>>, m |-> <<>>]

Undefined == [t |-> "undefined", n |-> 0, s |-> <<>>, m |-> <<>>]

True == [t |-> "true", n |-> 0, s |-> <<>>, m |-> <<>>]

False == [t |-> "false", n |-> 0, s |-> <<>>, m |-> <<>>]

Num(n) == [t |-> "num", n |-> n, s |-> <<>>, m |-> <<>>]

\* The string with the code units s.
Str(s) == [t |-> "str", n |-> 0, s |-> s, m |-> <<>>]

\* The property with the key k (code units) and the value v.
Member(k, v) == [k |-> k, v |-> v]

\* An array literal: elems is a sequence of values.
Arr(elems) ==
    [t |-> "arr", n |-> 0, s |-> <<>>,
     m |-> [i \in 1..Len(elems) |-> Member(<<>>, elems[i])]]

IsArray(v) == v.t = "arr"

IsObject(v) == v.t = "obj"

length(v) == Len(v.m)

\* data[i] (1-based here).
At(v, i) == v.m[i].v

Keys(o) == {o.m[i].k : i \in 1..Len(o.m)}

\* o[k]: the value of own property k, undefined when there is none.  Only
\* objects carry named properties here (numbers, strings, booleans and
\* arrays have no property "id"); reading a property of null throws and is
\* guarded by the callers.
Get(o, k) ==
    IF IsObject(o) /\ k \in Keys(o)
    THEN o.m[CHOOSE i \in 1..Len(o.m) : o.m[i].k = k].v
    ELSE Undefined

(***************************************************************************)
(* Natural numbers of any size, for the arithmetic of the doubles: the     *)
(* sequence of the decimal digits, the most significant first, without a   *)
(* leading zero; <<>> is 0.                                                *)
(***************************************************************************)
\* The digits d without their leading zeros.
StripZeros(d) ==
    IF \A i \in 1..Len(d) : d[i] = 0 THEN <<>>
    ELSE LET f == CHOOSE i \in 1..Len(d) : d[i] # 0 /\ \A j \in 1..(i - 1) : d[j] = 0
         IN  SubSeq(d, f, Len(d))

RECURSIVE NatDigits(_)
\* The digits of the integer n >= 0.
NatDigits(n) == IF n = 0 THEN <<>> ELSE NatDigits(n \div 10) \o <<n % 10>>

RECURSIVE IntOf(_)
\* The integer of the digits d, at most 2^31 - 1.
IntOf(d) ==
    IF d = <<>> THEN 0 ELSE 10 * IntOf(SubSeq(d, 1, Len(d) - 1)) + d[Len(d)]

\* c zeros.
Zeros(c) == <<>> \o [i \in 1..c |-> 0]

\* a * 10^k.
Shift(a, k) == IF a = <<>> THEN <<>> ELSE a \o Zeros(k)

\* -1, 0 or 1 as a is below, equal to or above b.
Compare(a, b) ==
    IF Len(a) # Len(b) THEN (IF Len(a) < Len(b) THEN 0 - 1 ELSE 1)
    ELSE IF a = b THEN 0
    ELSE LET i == CHOOSE i \in 1..Len(a) : a[i] # b[i] /\ \A j \in 1..(i - 1) : a[j] = b[j]
         IN  IF a[i] < b[i] THEN 0 - 1 ELSE 1

RECURSIVE Carried(_, _, _, _)
\* The places lo..hi of raw, a sequence of integers that stand where digits
\* stand, with the carries taken from place to place: the digits d of these
\* places, from the least significant on (the one at place hi), and the
\* carry c out of place lo, when cin is carried into place hi.
Carried(raw, lo, hi, cin) ==
    IF lo > hi THEN [d |-> <<>>, c |-> cin]
    ELSE IF lo = hi
    THEN LET v == raw[lo] + cin IN [d |-> <<v % 10>>, c |-> v \div 10]
    ELSE LET mid == (lo + hi) \div 2
             low == Carried(raw, mid + 1, hi, cin)
             high == Carried(raw, lo, mid, low.c)
         IN  [d |-> low.d \o high.d, c |-> high.c]

\* The sequence s from its last element to its first.
Reverse(s) == <<>> \o [i \in 1..Len(s) |-> s[Len(s) + 1 - i]]

\* The natural number that raw denotes (it is not negative).
Normal(raw) ==
    LET r == Carried(raw, 1, Len(raw), 0) IN StripZeros(NatDigits(r.c) \o Reverse(r.d))

\* a with zeros in front, n digits in all.
Padded(a, n) == Zeros(n - Len(a)) \o a

\* a + b, and a - b for a >= b.
Plus(a, b) ==
    LET n == IF Len(a) < Len(b) THEN Len(b) ELSE Len(a)
        x == Padded(a, n)
        y == Padded(b, n)
    IN  Normal([i \in 1..n |-> x[i] + y[i]])

Minus(a, b) ==
    LET y == Padded(b, Len(a)) IN Normal([i \in 1..Len(a) |-> a[i] - y[i]])

\* a * c for an integer c from 0 to 2^27.
MulSmall(a, c) == Normal([i \in 1..Len(a) |-> a[i] * c])

RECURSIVE MulPow2(_, _)
\* a * 2^k.
MulPow2(a, k) ==
    IF a = <<>> \/ k = 0 THEN a
    ELSE IF k < 27 THEN MulSmall(a, 2^k)
    ELSE MulPow2(MulSmall(a, 2^27), k - 27)

RECURSIVE MulPow5(_, _)
\* a * 5^k.
MulPow5(a, k) ==
    IF a = <<>> \/ k = 0 THEN a
    ELSE IF k < 11 THEN MulSmall(a, 5^k)
    ELSE MulPow5(MulSmall(a, 5^11), k - 11)

RECURSIVE DivFrom(_, _, _, _, _)
\* Long division of a by b, from the digit of a at place next on: rem is
\* the remainder of the digits before it, q the digits of the quotient so
\* far, and mult[k + 1] is k * b.
DivFrom(a, mult, rem, next, q) ==
    IF next > Len(a) THEN [q |-> StripZeros(q), r |-> rem]
    ELSE LET cur == StripZeros(rem \o <<a[next]>>)
             k == CHOOSE k \in 0..9 :
                     /\ Compare(mult[k + 1], cur) <= 0
                     /\ k = 9 \/ Compare(mult[k + 2], cur) > 0
         IN  DivFrom(a, mult, Minus(cur, mult[k + 1]), next + 1, Append(q, k))

\* The quotient q and the remainder r of a by b, b not 0.
DivMod(a, b) ==
    DivFrom(a,
            <<>> \o [c \in 1..10 |-> MulSmall(b, c - 1)],
            SubSeq(a, 1, IF Len(a) < Len(b) THEN Len(a) ELSE Len(b) - 1),
            (IF Len(a) < Len(b) THEN Len(a) ELSE Len(b) - 1) + 1,
            <<>>)

(***************************************************************************)
(* Numbers.  A JavaScript number is a double: a mantissa m below 2^53 and  *)
(* an exponent p from -1074 to 971, for the number m * 2^p, or Infinity.   *)
(* JSON.parse gives for a number in the text the double nearest to it, and *)
(* JSON.stringify prints a double with the fewest digits that still give   *)
(* this double back.  That text names the double, and it is what a value   *)
(* holds of a number: in n when the number is an integer of magnitude      *)
(* below 2^31, in s, as it is printed, for any other.  -0 is held as 0:    *)
(* the two are equal under === and are printed alike.                      *)
(***************************************************************************)
TwoTo52 == MulPow2(<<1>>, 52)

TwoTo53 == MulPow2(<<1>>, 53)

\* A number below the logarithm to base 2 of 10^k, at most 3 below it, for
\* k from -400 to 400.
Log2Floor(k) == ((k * 3321928) \div 1000000) - 1

DoubleZero == [kind |-> "zero", m |-> <<>>, p |-> 0]

DoubleInfinity == [kind |-> "infinity", m |-> <<>>, p |-> 0]

\* The double m * 2^p for a mantissa m of 53 bits at most or 2^53, which
\* takes the next exponent; beyond the largest exponent it is Infinity.
Double(m, p) ==
    IF m = <<>> THEN DoubleZero
    ELSE IF m = TwoTo53
    THEN (IF p + 1 > 971 THEN DoubleInfinity
          ELSE [kind |-> "finite", m |-> TwoTo52, p |-> p + 1])
    ELSE IF p > 971 THEN DoubleInfinity
    ELSE [kind |-> "finite", m |-> m, p |-> p]

\* The mantissa of a quotient cut by some bits, low.q, rounded by the bits
\* cut, low.r: up when they are above half, and when they are half and
\* more follows (rest) or the mantissa is odd.
RoundedEven(low, half, rest) ==
    LET above == Compare(low.r, half) IN
    IF above > 0 \/ (above = 0 /\ (rest \/ (low.q # <<>> /\ low.q[Len(low.q)] % 2 = 1)))
    THEN Plus(low.q, <<1>>)
    ELSE low.q

\* The double of a number whose quotient by 2^P0 is qr.q, of 54 + t bits,
\* with the remainder qr.r: the mantissa is the quotient cut by t + 1 bits.
RoundedAt(P0, qr, t) ==
    Double(RoundedEven(DivMod(qr.q, NatDigits(2^(t + 1))), NatDigits(2^t), qr.r # <<>>),
           P0 + t + 1)

\* The double of a number whose quotient by 2^P0 is qr.q, of 54 bits at
\* least, with the remainder qr.r.
Rounded(P0, qr) ==
    RoundedAt(P0, qr, CHOOSE t \in 0..8 :
                          /\ Compare(qr.q, MulPow2(<<1>>, 54 + t)) < 0
                          /\ t = 0 \/ Compare(qr.q, MulPow2(<<1>>, 53 + t)) >= 0)

\* The double nearest to digits * 10^e, halfway cases to the even mantissa.
\* P0 is an exponent of 2 at which the quotient of the number has the 53
\* bits of the mantissa and one to nine more.
Nearest(digits, e) ==
    LET E10 == Len(digits) + e
        est == Log2Floor(E10 - 1) - 52
        P0 == (IF est < 0 - 1074 THEN 0 - 1074 ELSE est) - 1
    IN  IF digits = <<>> \/ E10 < 0 - 325 THEN DoubleZero
        ELSE IF E10 > 310 THEN DoubleInfinity
        ELSE Rounded(P0, DivMod(MulPow2(Shift(digits, IF e > 0 THEN e ELSE 0),
                                        IF P0 < 0 THEN 0 - P0 ELSE 0),
                                MulPow2(Shift(<<1>>, IF e < 0 THEN 0 - e ELSE 0),
                                        IF P0 > 0 THEN P0 ELSE 0)))

\* V cut after its first n digits, and the next number of n digits above
\* that when V is not such a number itself.
FloorTo(V, n) == SubSeq(V, 1, n) \o Zeros(Len(V) - n)

CeilTo(V, n) ==
    IF \A i \in (n + 1)..Len(V) : V[i] = 0 THEN V
    ELSE Plus(FloorTo(V, n), <<1>> \o Zeros(Len(V) - n))

\* x lies between Lo and Hi; the ends count when closed.
Within(x, Lo, Hi, closed) ==
    IF closed THEN Compare(Lo, x) <= 0 /\ Compare(x, Hi) <= 0
    ELSE Compare(Lo, x) < 0 /\ Compare(x, Hi) < 0

\* The digits d without their trailing zeros.
StripTrailingZeros(d) ==
    LET l == CHOOSE i \in 0..Len(d) :
                /\ i = 0 \/ d[i] # 0
                /\ \A j \in (i + 1)..Len(d) : d[j] = 0
    IN  SubSeq(d, 1, l)

RECURSIVE FewestDigits(_, _, _, _, _)
\* The number of the fewest digits, n at least, that V cut or raised to
\* that many digits gives between Lo and Hi, and of the two the one nearer
\* to V (the even one when they are as near).
FewestDigits(V, Lo, Hi, closed, n) ==
    LET floor == FloorTo(V, n)
        ceil == CeilTo(V, n)
        tail == Compare(MulSmall(Minus(V, floor), 2), <<1>> \o Zeros(Len(V) - n))
    IN  IF n < Len(V) /\ n < 17 /\ ~Within(floor, Lo, Hi, closed) /\ ~Within(ceil, Lo, Hi, closed)
        THEN FewestDigits(V, Lo, Hi, closed, n + 1)
        ELSE IF ~Within(ceil, Lo, Hi, closed) THEN floor
        ELSE IF ~Within(floor, Lo, Hi, closed) THEN ceil
        ELSE IF tail < 0 THEN floor
        ELSE IF tail > 0 THEN ceil
        ELSE IF V[n] % 2 = 0 THEN floor ELSE ceil

\* The shortest decimal number that the double m * 2^p is the nearest
\* double to, and of several the one nearest to the double: its digits s
\* and the exponent n, for the number 0.s * 10^n.  The double (V) and the
\* halfway points to the doubles next to it are whole numbers when
\* multiplied by 10^K, and F is a quarter of the step to the next double;
\* the lower double is nearer by half when the mantissa is the least of
\* its exponent.
ShortestAround(m, p, V, F) ==
    LET best == FewestDigits(V,
                             Minus(V, IF m = TwoTo52 /\ p > 0 - 1074 THEN F ELSE MulSmall(F, 2)),
                             Plus(V, MulSmall(F, 2)),
                             m[Len(m)] % 2 = 0,
                             1)
    IN  [s |-> StripTrailingZeros(best), n |-> Len(best) - (IF p < 0 THEN 2 - p ELSE 2)]

Shortest(m, p) ==
    ShortestAround(m, p,
                   IF p < 0 THEN MulPow5(MulSmall(m, 4), 2 - p) ELSE Shift(MulPow2(m, p), 2),
                   IF p < 0 THEN MulPow5(<<1>>, 2 - p) ELSE MulPow2(<<2, 5>>, p))

\* Unit c is a decimal digit, and the digit it is.
IsDigit(c) == 48 <= c /\ c <= 57

DigitVal(c) == c - 48

RECURSIVE NumberToString(_)
\* String(n) for an integer n.
NumberToString(n) ==
    IF n < 0 THEN <<45>> \o NumberToString(0 - n)
    ELSE IF n < 10 THEN <<48 + n>>
    ELSE NumberToString(n \div 10) \o <<48 + (n % 10)>>

\* Number::toString of the number 0.s * 10^n, negated when neg: plain
\* digits up to 10^21, a fraction down to 10^-6, else the exponent form.
NumberText(neg, s, n) ==
    LET k == Len(s)
        d == <<>> \o [i \in 1..k |-> 48 + s[i]]
        zeros(c) == <<>> \o [i \in 1..c |-> 48]
    IN  (IF neg THEN <<45>> ELSE <<>>)
        \o (IF k <= n /\ n <= 21 THEN d \o zeros(n - k)
            ELSE IF 0 < n /\ n <= 21 THEN SubSeq(d, 1, n) \o <<46>> \o SubSeq(d, n + 1, k)
            ELSE IF 0 - 6 < n /\ n <= 0 THEN <<48, 46>> \o zeros(0 - n) \o d
            ELSE (IF k = 1 THEN d ELSE <<d[1], 46>> \o SubSeq(d, 2, k))
                 \o <<101, IF n - 1 < 0 THEN 45 ELSE 43>>
                 \o NumberToString(IF n - 1 < 0 THEN 1 - n ELSE n - 1))

\* The number 0.s * 10^n of the digits short.s and the exponent short.n,
\* negated when neg, as a value.
NumberValue(neg, short) ==
    LET whole == short.s \o Zeros(short.n - Len(short.s)) IN
    IF /\ Len(short.s) <= short.n
       /\ short.n <= 10
       /\ (short.n < 10 \/ Compare(whole, <<2, 1, 4, 7, 4, 8, 3, 6, 4, 7>>) <= 0)
    THEN Num(IF neg THEN 0 - IntOf(whole) ELSE IntOf(whole))
    ELSE [t |-> "num", n |-> 0, s |-> NumberText(neg, short.s, short.n), m |-> <<>>]

\* Infinity and -Infinity.
Infinity(neg) ==
    [t |-> "num", n |-> 0, s |-> (IF neg THEN <<45>> ELSE <<>>) \o Units("Infinity"), m |-> <<>>]

\* The value is Infinity or -Infinity: JSON.stringify prints null for it.
IsInfinite(v) == v \in {Infinity(FALSE), Infinity(TRUE)}

\* The last place of the digits that stand in t from place i on (i - 1
\* when there is none).
DigitsEnd(t, i) ==
    CHOOSE j \in (i - 1)..Len(t) :
        /\ j = Len(t) \/ ~IsDigit(t[j + 1])
        /\ \A k \in i..j : IsDigit(t[k])

\* The parts of the text t read as a JSON number: an optional minus sign,
\* the digits of the integer up to whole, then a point and the digits of
\* the fraction up to frac, then e or E, an optional sign and the digits of
\* the exponent, from expAt up to last.
NumberParts(t) ==
    LET Parts(first, whole, frac, hasExp, expAt) ==
            [first |-> first, whole |-> whole, frac |-> frac, hasExp |-> hasExp,
             expAt |-> expAt, last |-> IF hasExp THEN DigitsEnd(t, expAt) ELSE frac]
        Exponent(first, whole, frac, hasExp) ==
            Parts(first, whole, frac, hasExp,
                  IF hasExp /\ frac + 1 < Len(t) /\ t[frac + 2] \in {43, 45}
                  THEN frac + 3
                  ELSE frac + 2)
        Fraction(first, whole, frac) ==
            Exponent(first, whole, frac, frac < Len(t) /\ t[frac + 1] \in {101, 69})
        Whole(first, whole) ==
            Fraction(first, whole,
                     IF whole < Len(t) /\ t[whole + 1] = 46
                     THEN DigitsEnd(t, whole + 2)
                     ELSE whole)
        Signed(first) == Whole(first, DigitsEnd(t, first))
    IN  Signed(IF t # <<>> /\ t[1] = 45 THEN 2 ELSE 1)

\* The text t is a JSON number: the integer has a digit and no leading
\* zero, a point is followed by a digit, and so is the e of an exponent.
IsNumberText(t) ==
    LET Well(P) ==
            /\ P.whole >= P.first
            /\ t[P.first] = 48 => P.whole = P.first
            /\ (P.whole < Len(t) /\ t[P.whole + 1] = 46) => P.frac >= P.whole + 2
            /\ P.hasExp => P.last >= P.expAt
            /\ P.last = Len(t)
    IN  Well(NumberParts(t))

\* The number that is the double near, negated when neg, named by its
\* shortest text.
Denoted(neg, near) ==
    CASE near.kind = "zero" -> Num(0)
      [] near.kind = "infinity" -> Infinity(neg)
      [] OTHER -> NumberValue(neg, Shortest(near.m, near.p))

\* The number that the JSON number t with the parts P denotes: the integer
\* itself when the text is one of at most nine digits, else the double
\* nearest to it.  An exponent of more than seven digits stands for
\* 9999999: with it a text of fewer than a million digits is 0 or beyond
\* every double all the same.
NumberOf(t, P) ==
    LET sig == StripZeros(<<>> \o [i \in 1..(P.frac - P.first + (IF P.frac > P.whole THEN 0 ELSE 1)) |->
                   DigitVal(t[IF P.first + i - 1 <= P.whole THEN P.first + i - 1 ELSE P.first + i])])
        fraction == IF P.frac > P.whole THEN P.frac - P.whole - 1 ELSE 0
        expDigits == IF P.hasExp
                     THEN StripZeros(<<>> \o [i \in 1..(P.last - P.expAt + 1) |-> DigitVal(t[P.expAt + i - 1])])
                     ELSE <<>>
        expAbs == IF Len(expDigits) > 7 THEN 9999999 ELSE IntOf(expDigits)
        exp == IF P.hasExp /\ t[P.expAt - 1] = 45 THEN 0 - expAbs ELSE expAbs
    IN  IF ~P.hasExp /\ fraction = 0 /\ Len(sig) <= 9
        THEN Num(IF P.first = 2 THEN 0 - IntOf(sig) ELSE IntOf(sig))
        ELSE Denoted(P.first = 2, Nearest(sig, exp - fraction))

\* The number that the JSON number t denotes.
StringToNumber(t) == NumberOf(t, NumberParts(t))

(***************************************************************************)
(* Property keys.  The own properties of an object are ordered: first the  *)
(* keys that are array indices ("0", "1", "10"; canonical decimal numerals *)
(* below 2^32 - 1) in ascending numeric order, then every other key in the *)
(* order in which it was first defined.                                    *)
(***************************************************************************)
\* a < b for two canonical decimal numerals, compared as numbers.
NumeralLess(a, b) ==
    \/ Len(a) < Len(b)
    \/ /\ Len(a) = Len(b)
       /\ \E i \in 1..Len(a) :
            /\ SubSeq(a, 1, i - 1) = SubSeq(b, 1, i - 1)
            /\ DigitVal(a[i]) < DigitVal(b[i])

\* k is an array index: a decimal numeral without leading zero, at most
\* 2^32 - 2.
IsIndexKey(k) ==
    /\ Len(k) \in 1..10
    /\ \A i \in 1..Len(k) : IsDigit(k[i])
    /\ Len(k) > 1 => k[1] # 48
    /\ ~NumeralLess(Units("4294967294"), k)

\* Key a comes before key b among the index keys of an object.
IndexKeyLess(a, b) == IsIndexKey(a) /\ IsIndexKey(b) /\ NumeralLess(a, b)

\* Assignment o[k] = v on a member list: an existing key keeps its position;
\* a new index key goes after the index keys below it; any other new key
\* goes to the end.
SetMember(members, k, v) ==
    IF \E i \in 1..Len(members) : members[i].k = k
    THEN [i \in 1..Len(members) |->
            IF members[i].k = k THEN Member(k, v) ELSE members[i]]
    ELSE IF IsIndexKey(k)
    THEN LET below == {i \in 1..Len(members) : IndexKeyLess(members[i].k, k)}
             n == Cardinality(below)
         IN  SubSeq(members, 1, n) \o <<Member(k, v)>> \o SubSeq(members, n + 1, Len(members))
    ELSE Append(members, Member(k, v))

RECURSIVE SpreadInto(_, _)
\* The members of an object literal after "...src" onto the members so far.
SpreadInto(members, src) ==
    IF src = <<>> THEN members
    ELSE SpreadInto(SetMember(members, Head(src).k, Head(src).v), Tail(src))

\* An object literal { k1: v1, k2: v2, ... }: its properties are defined one
\* after the other.
Obj(members) == [t |-> "obj", n |-> 0, s |-> <<>>, m |-> SpreadInto(<<>>, members)]

\* Own enumerable properties copied by a spread: those of an object; of an
\* array its elements under the keys "0", "1", ...; of a string its
\* code units under the keys "0", "1", ...; null, undefined, numbers and
\* booleans contribute none.
SpreadSource(v) ==
    CASE v.t = "obj" -> v.m
      [] v.t = "arr" -> [i \in 1..Len(v.m) |-> Member(NumberToString(i - 1), v.m[i].v)]
      [] v.t = "str" -> [i \in 1..Len(v.s) |-> Member(NumberToString(i - 1), Str(<<v.s[i]>>))]
      [] OTHER -> <<>>

\* a === b (strict equality): primitives by value, objects and arrays by
\* reference; a value freshly parsed from the file is never the same
\* reference as a caller's argument.
StrictEquals(a, b) == a.t \notin {"obj", "arr"} /\ a = b

(***************************************************************************)
(* JSON text, as a sequence of tokens.                                     *)
(***************************************************************************)
Tok(k) == [k |-> k, n |-> 0, s |-> <<>>]

\* The number v.
NumTok(v) == [k |-> "num", n |-> v.n, s |-> v.s]

\* The string with the code units s.
StrTok(s) == [k |-> "str", n |-> 0, s |-> s]

\* A line break followed by ind spaces.
NewlineTok(ind) == [k |-> "nl", n |-> ind, s |-> <<>>]

SpaceTok == [k |-> "sp", n |-> 1, s |-> <<>>]

\* JSON.stringify(value, null, gap), gap the indent width (0: compact).  A
\* number that is not finite is printed as null.  A property whose value is
\* undefined is left out of its object; an array element that is undefined
\* is printed as null; for the value undefined itself there is no text
\* (JSON.stringify returns undefined, see StringifyGivesText).
RECURSIVE JSON_stringify(_, _, _), StringifyMembers(_, _, _, _, _)
JSON_stringify(v, gap, ind) ==
    CASE v.t = "num" -> <<IF IsInfinite(v) THEN Tok("null") ELSE NumTok(v)>>
      [] v.t = "str" -> <<StrTok(v.s)>>
      [] v.t = "arr" ->
            IF v.m = <<>> THEN <<Tok("["), Tok("]")>>
            ELSE <<Tok("[")>> \o StringifyMembers(v.m, FALSE, gap, ind + gap, TRUE)
                 \o (IF gap = 0 THEN <<>> ELSE <<NewlineTok(ind)>>) \o <<Tok("]")>>
      [] v.t = "obj" ->
            LET printed == SelectSeq(v.m, LAMBDA e : e.v.t # "undefined") IN
            IF printed = <<>> THEN <<Tok("{"), Tok("}")>>
            ELSE <<Tok("{")>> \o StringifyMembers(printed, TRUE, gap, ind + gap, TRUE)
                 \o (IF gap = 0 THEN <<>> ELSE <<NewlineTok(ind)>>) \o <<Tok("}")>>
      [] v.t = "undefined" -> <<>>
      [] OTHER -> <<Tok(v.t)>>

StringifyMembers(members, keyed, gap, ind, first) ==
    IF members = <<>> THEN <<>>
    ELSE (IF first THEN <<>> ELSE <<Tok(",")>>)
         \o (IF gap = 0 THEN <<>> ELSE <<NewlineTok(ind)>>)
         \o (IF keyed
             THEN <<StrTok(Head(members).k), Tok(":")>>
                  \o (IF gap = 0 THEN <<>> ELSE <<SpaceTok>>)
             ELSE <<>>)
         \o (IF Head(members).v.t = "undefined"
             THEN <<Tok("null")>>
             ELSE JSON_stringify(Head(members).v, gap, ind))
         \o StringifyMembers(Tail(members), keyed, gap, ind, FALSE)

\* JSON.stringify(v) is a string: it is undefined for the value undefined.
StringifyGivesText(v) == v.t # "undefined"

\* Parser results: the value and the position of the next unread token.
ParseOk(v, next) == [ok |-> TRUE, val |-> v, next |-> next]

ParseFail == [ok |-> FALSE, val |-> Undefined, next |-> 0]

\* The position of the first token at or after i that is not whitespace.
RECURSIVE SkipWs(_, _)
SkipWs(ts, i) ==
    IF i <= Len(ts) /\ ts[i].k \in {"nl", "sp"} THEN SkipWs(ts, i + 1) ELSE i

\* The token at position i is of kind k.
NextIs(ts, i, k) == i <= Len(ts) /\ ts[i].k = k

RECURSIVE ParseValue(_, _), ParseElements(_, _, _), ParseMembers(_, _, _)
ParseValue(ts, i) ==
    LET u == SkipWs(ts, i) IN
    IF u > Len(ts) THEN ParseFail
    ELSE LET h == ts[u] IN
         CASE h.k = "num" -> ParseOk([t |-> "num", n |-> h.n, s |-> h.s, m |-> <<>>], u + 1)
           [] h.k = "str" -> ParseOk(Str(h.s), u + 1)
           [] h.k = "null" -> ParseOk(Null, u + 1)
           [] h.k = "true" -> ParseOk(True, u + 1)
           [] h.k = "false" -> ParseOk(False, u + 1)
           [] h.k = "[" ->
                LET c == SkipWs(ts, u + 1) IN
                IF NextIs(ts, c, "]") THEN ParseOk(Arr(<<>>), c + 1)
                ELSE ParseElements(ts, u + 1, <<>>)
           [] h.k = "{" ->
                LET c == SkipWs(ts, u + 1) IN
                IF NextIs(ts, c, "}") THEN ParseOk(Obj(<<>>), c + 1)
                ELSE ParseMembers(ts, u + 1, <<>>)
           [] OTHER -> ParseFail

ParseElements(ts, i, acc) ==
    LET r == ParseValue(ts, i) IN
    IF ~r.ok THEN ParseFail
    ELSE LET u == SkipWs(ts, r.next)
             got == Append(acc, Member(<<>>, r.val))
         IN  IF NextIs(ts, u, ",") THEN ParseElements(ts, u + 1, got)
             ELSE IF NextIs(ts, u, "]")
             THEN ParseOk([t |-> "arr", n |-> 0, s |-> <<>>, m |-> got], u + 1)
             ELSE ParseFail

ParseMembers(ts, i, acc) ==
    LET u == SkipWs(ts, i) IN
    IF ~NextIs(ts, u, "str") THEN ParseFail
    ELSE LET c == SkipWs(ts, u + 1) IN
         IF ~NextIs(ts, c, ":") THEN ParseFail
         ELSE LET r == ParseValue(ts, c + 1) IN
              IF ~r.ok THEN ParseFail
              ELSE LET w == SkipWs(ts, r.next)
                       got == SetMember(acc, ts[u].s, r.val)
                   IN  IF NextIs(ts, w, ",") THEN ParseMembers(ts, w + 1, got)
                       ELSE IF NextIs(ts, w, "}") THEN ParseOk(Obj(got), w + 1)
                       ELSE ParseFail

\* JSON.parse(text): the value, or a SyntaxError when the text is not
\* exactly one JSON value.
JSON_parse(ts) ==
    LET r == ParseValue(ts, 1) IN
    IF r.ok /\ SkipWs(ts, r.next) > Len(ts) THEN r ELSE ParseFail

(***************************************************************************)
(* The file as bytes.  JSON.stringify returns a JavaScript string, and      *)
(* fs.writeFileSync stores it in UTF-8; fs.readFileSync(path, "utf-8")      *)
(* decodes the bytes of the file to a string and JSON.parse reads that      *)
(* string.  A file is a sequence of bytes (numbers below 256).              *)
(***************************************************************************)
\* Unit i of t is the first, or the second, half of a surrogate pair.
PairStartsAt(t, i) == IsHighSurrogate(t[i]) /\ i < Len(t) /\ IsLowSurrogate(t[i + 1])

PairEndsAt(t, i) == IsLowSurrogate(t[i]) /\ i > 1 /\ IsHighSurrogate(t[i - 1])

\* The hexadecimal digit (lower case) of d, and the value of the digit c.
HexDigit(d) == IF d < 10 THEN 48 + d ELSE 87 + d

IsHexDigit(c) == (48 <= c /\ c <= 57) \/ (65 <= c /\ c <= 70) \/ (97 <= c /\ c <= 102)

HexVal(c) == IF c <= 57 THEN c - 48 ELSE IF c <= 70 THEN c - 55 ELSE c - 87

\* The six units of the escape \uXXXX of unit u.
UnicodeEscape(u) ==
    <<92, 117, HexDigit(u \div 4096), HexDigit((u \div 256) % 16),
      HexDigit((u \div 16) % 16), HexDigit(u % 16)>>

\* JSON.stringify of a string, unit i of its units t: quote and backslash
\* get a backslash in front, the control characters their escape (\b \t \n
\* \f \r, else \u00XX), a surrogate without its partner its escape \uDXXX,
\* and every other unit stands for itself.
QuoteUnit(t, i) ==
    LET u == t[i] IN
    CASE u = 34 -> <<92, 34>>
      [] u = 92 -> <<92, 92>>
      [] u = 8 -> <<92, 98>>
      [] u = 9 -> <<92, 116>>
      [] u = 10 -> <<92, 110>>
      [] u = 12 -> <<92, 102>>
      [] u = 13 -> <<92, 114>>
      [] u < 32 /\ u \notin {8, 9, 10, 12, 13} -> UnicodeEscape(u)
      [] (IsHighSurrogate(u) /\ ~PairStartsAt(t, i))
         \/ (IsLowSurrogate(u) /\ ~PairEndsAt(t, i)) -> UnicodeEscape(u)
      [] OTHER -> <<u>>

\* The text of a string token: the quoted string between two quotes.
Quote(t) ==
    <<34>> \o Join([i \in 1..Len(t) |-> QuoteUnit(t, i)], 1, Len(t)) \o <<34>>

\* The text of one token.
TokenText(tok) ==
    CASE tok.k = "num" -> IF tok.s # <<>> THEN tok.s ELSE NumberToString(tok.n)
      [] tok.k = "str" -> Quote(tok.s)
      [] tok.k = "nl" -> <<10>> \o [j \in 1..tok.n |-> 32]
      [] tok.k = "sp" -> [j \in 1..tok.n |-> 32]
      [] OTHER -> Units(tok.k)

\* The string that JSON.stringify returns, for the tokens ts.
Text(ts) == Join([i \in 1..Len(ts) |-> TokenText(ts[i])], 1, Len(ts))

\* The UTF-8 bytes of the code point p.
CodePointBytes(p) ==
    IF p < 128 THEN <<p>>
    ELSE IF p < 2048 THEN <<192 + (p \div 64), 128 + (p % 64)>>
    ELSE IF p < 65536
    THEN <<224 + (p \div 4096), 128 + ((p \div 64) % 64), 128 + (p % 64)>>
    ELSE <<240 + (p \div 262144), 128 + ((p \div 4096) % 64),
           128 + ((p \div 64) % 64), 128 + (p % 64)>>

\* The bytes that fs.writeFileSync writes for unit i of the text t: a
\* surrogate pair is one code point, written where its first half stands; a
\* surrogate without its partner is written as U+FFFD.
EncodeUnit(t, i) ==
    LET u == t[i] IN
    IF PairStartsAt(t, i)
    THEN CodePointBytes(65536 + (u - 55296) * 1024 + (t[i + 1] - 56320))
    ELSE IF PairEndsAt(t, i) THEN <<>>
    ELSE IF IsHighSurrogate(u) \/ IsLowSurrogate(u) THEN <<239, 191, 189>>
    ELSE CodePointBytes(u)

\* The bytes that fs.writeFileSync writes for the text t.
Utf8Encode(t) == Join([i \in 1..Len(t) |-> EncodeUnit(t, i)], 1, Len(t))

\* The code units of the code point p.
CodePointUnits(p) ==
    IF p < 65536 THEN <<p>>
    ELSE <<55296 + ((p - 65536) \div 1024), 56320 + ((p - 65536) % 1024)>>

\* The number of bytes that the first byte lead of a UTF-8 sequence
\* announces after itself; -1 for a byte that can start no sequence.
Announced(lead) ==
    IF lead < 128 THEN 0
    ELSE IF 194 <= lead /\ lead <= 223 THEN 1
    ELSE IF 224 <= lead /\ lead <= 239 THEN 2
    ELSE IF 240 <= lead /\ lead <= 244 THEN 3
    ELSE 0 - 1

\* Byte x can be the k-th byte after the first byte lead: the second byte
\* of a sequence has a range of its own after E0, ED, F0 and F4.
Continues(lead, k, x) ==
    IF k = 1
    THEN /\ (IF lead = 224 THEN 160 ELSE IF lead = 240 THEN 144 ELSE 128) <= x
         /\ x <= (IF lead = 237 THEN 159 ELSE IF lead = 244 THEN 143 ELSE 191)
    ELSE 128 <= x /\ x <= 191

\* The number of bytes after place i of b that go on the sequence that
\* b[i] starts.
Continuation(b, i) ==
    Cardinality({k \in 1..Announced(b[i]) :
                    \A j \in 1..k : i + j <= Len(b) /\ Continues(b[i], j, b[i + j])})

\* Byte i of b goes on a sequence that a byte before it starts.
Continued(b, i) ==
    \E d \in 1..3 : i - d >= 1 /\ Continuation(b, i - d) >= d

\* The code units that the decoder gives at byte i of b: none for a byte
\* that goes on a sequence, the code point for the first byte of a whole
\* sequence, and U+FFFD for a sequence that breaks off and for a byte that
\* can start none.
DecodeAt(b, i) ==
    LET lead == b[i]
        need == Announced(lead)
    IN  IF need = 0 THEN <<lead>>
        ELSE IF Continued(b, i) THEN <<>>
        ELSE IF need < 0 \/ Continuation(b, i) < need THEN <<65533>>
        ELSE IF need = 1 THEN CodePointUnits((lead - 192) * 64 + (b[i + 1] - 128))
        ELSE IF need = 2
        THEN CodePointUnits((lead - 224) * 4096 + (b[i + 1] - 128) * 64 + (b[i + 2] - 128))
        ELSE CodePointUnits((lead - 240) * 262144 + (b[i + 1] - 128) * 4096
                            + (b[i + 2] - 128) * 64 + (b[i + 3] - 128))

\* The string that the bytes b decode to.
Utf8Decode(b) == Join([i \in 1..Len(b) |-> DecodeAt(b, i)], 1, Len(b))

\* The number of backslashes that stand in t right before place j.
BackslashesBefore(t, j) ==
    CHOOSE k \in 0..(j - 1) :
        /\ \A m \in 1..k : t[j - m] = 92
        /\ k = j - 1 \/ t[j - k - 1] # 92

\* The places of t with a quote that no backslash escapes.
QuotesOf(t) == {j \in 1..Len(t) : t[j] = 34 /\ BackslashesBefore(t, j) % 2 = 0}

\* In the string between the quotes at q and c: place p has the backslash
\* that starts an escape, or the character after it, or one of the four
\* hexadecimal digits of an escape \uXXXX.
StartsEscape(t, p) == t[p] = 92 /\ BackslashesBefore(t, p) % 2 = 0

IsEscaped(t, p) == p > 1 /\ StartsEscape(t, p - 1)

InUnicodeEscape(t, q, p) ==
    \E d \in 1..4 : p - d > q /\ t[p - d] = 117 /\ IsEscaped(t, p - d)

\* The string token whose quotes stand at q and c: a control character and
\* an unknown or unfinished escape make it no token.
StringToken(t, q, c) ==
    LET Good(p) ==
            IF StartsEscape(t, p) THEN TRUE
            ELSE IF IsEscaped(t, p)
            THEN \/ t[p] \in {34, 92, 47, 98, 102, 110, 114, 116}
                 \/ /\ t[p] = 117
                    /\ p + 4 < c
                    /\ \A d \in 1..4 : IsHexDigit(t[p + d])
            ELSE InUnicodeEscape(t, q, p) \/ t[p] >= 32
        Piece(p) ==
            IF StartsEscape(t, p) THEN <<>>
            ELSE IF IsEscaped(t, p)
            THEN CASE t[p] = 98 -> <<8>>
                   [] t[p] = 116 -> <<9>>
                   [] t[p] = 110 -> <<10>>
                   [] t[p] = 102 -> <<12>>
                   [] t[p] = 114 -> <<13>>
                   [] t[p] = 117 -> <<HexVal(t[p + 1]) * 4096 + HexVal(t[p + 2]) * 256
                                      + HexVal(t[p + 3]) * 16 + HexVal(t[p + 4])>>
                   [] OTHER -> <<t[p]>>
            ELSE IF InUnicodeEscape(t, q, p) THEN <<>>
            ELSE <<t[p]>>
    IN  IF \A p \in (q + 1)..(c - 1) : Good(p)
        THEN StrTok(Join([p \in 1..(c - q - 1) |-> Piece(q + p)], 1, c - q - 1))
        ELSE Tok("invalid")

\* The words that are tokens, and the tokens of one character.
Words == {"null", "true", "false"}

Punctuation == {"[", "]", "{", "}", ":", ","}

\* The word w stands in t at place i.
StandsAt(t, i, w) ==
    LET u == Units(w) IN
    i >= 1 /\ i + Len(u) - 1 <= Len(t) /\ SubSeq(t, i, i + Len(u) - 1) = u

\* Unit c can stand in a number: a digit, a sign, the point, e or E.
IsNumberUnit(c) == IsDigit(c) \/ c \in {45, 43, 46, 101, 69}

\* The token of the units at the places i..j of t: a number when they are
\* the text of one.
NumberToken(t, i, j) ==
    IF IsNumberText(SubSeq(t, i, j))
    THEN NumTok(StringToNumber(SubSeq(t, i, j)))
    ELSE Tok("invalid")

\* The tokens of the text t, as JSON.parse reads them, white space left
\* out.  A place outside the strings that belongs to no token gives the
\* token "invalid", and so does a string or a number that is none.
Scan(t) ==
    LET quotes == QuotesOf(t)
        \* The number of string quotes before place i: odd inside a string.
        Before(i) == Cardinality({q \in quotes : q < i})
        Closing(q) == CHOOSE c \in quotes : c > q /\ \A x \in quotes : x > q => c <= x
        InWord(i) == \E w \in Words : \E d \in 1..(Len(w) - 1) : StandsAt(t, i - d, w)
        \* Place i belongs to a number: the e of true and false does not.
        InNumber(i) == IsNumberUnit(t[i]) /\ ~InWord(i)
        RunEnd(i) == CHOOSE j \in i..Len(t) :
                        /\ j = Len(t) \/ ~InNumber(j + 1)
                        /\ \A k \in i..j : InNumber(k)
        TokensAt(i) ==
            LET c == t[i] IN
            IF Before(i) % 2 = 1 THEN <<>>
            ELSE IF i \in quotes
            THEN IF \E x \in quotes : x > i
                 THEN <<StringToken(t, i, Closing(i))>>
                 ELSE <<Tok("invalid")>>
            ELSE IF c \in {32, 10, 13, 9} THEN <<>>
            ELSE IF \E w \in Punctuation : charCodeAt(w) = c
            THEN <<Tok(CHOOSE w \in Punctuation : charCodeAt(w) = c)>>
            ELSE IF InNumber(i)
            THEN IF i > 1 /\ InNumber(i - 1) THEN <<>>
                 ELSE <<NumberToken(t, i, RunEnd(i))>>
            ELSE IF \E w \in Words : StandsAt(t, i, w)
            THEN <<Tok(CHOOSE w \in Words : StandsAt(t, i, w))>>
            ELSE IF InWord(i) THEN <<>>
            ELSE <<Tok("invalid")>>
    IN  Join([i \in 1..Len(t) |-> TokensAt(i)], 1, Len(t))

\* fs.writeFileSync(path, text): the bytes of the text with tokens ts.
writeFileSync(ts) == Utf8Encode(Text(ts))

\* fs.readFileSync(path, "utf-8") on a file holding bytes: the string.
readFileSync(bytes) == Utf8Decode(bytes)

\* The file after text is written from position 0 into a file holding old:
\* the bytes of old beyond the end of text stay.
Overlay(text, old) ==
    IF Len(old) > Len(text) THEN text \o SubSeq(old, Len(text) + 1, Len(old)) ELSE text

(***************************************************************************)
(* Bounds and inputs.                                                      *)
(***************************************************************************)
\* Date.now() takes the values 1..MaxClock.
MaxClock == 2

\* What Date.now() may return when the time was t at the last look: the same
\* millisecond or the next one.
Times(t) == {u \in t..MaxClock : u <= t + 1}

\* create is exercised while the document holds fewer records than this.
MaxRecords == 2

\* The record / updatedFields arguments.
FieldsSet ==
    { Obj(<<Member(Units("name"), Str(Units("a")))>>),
      Obj(<<Member(Units("id"), Null), Member(Units("name"), Str(Units("b")))>>) }

\* The id arguments of update and delete.
IdSet == {Num(i) : i \in 1..MaxClock} \cup {Null}

\* The data arguments of write: arrays, values that are not arrays, and
\* undefined, alone, as an array element and as a property value; one string
\* has characters that are written escaped or in two bytes.
WriteSet ==
    { Arr(<<>>), Arr(<<Null>>), Arr(<<Undefined>>), Obj(<<>>), Null, Undefined,
      Num(0), Str(Units("a")), Str(<<34, 92, 9, 233>>),
      Obj(<<Member(Units("b"), Num(1)), Member(Units("1"), Num(2)), Member(Units("u"), Undefined)>>) }

\* The filterFn arguments of query, each total on every JSON value:
\*   "all"   r => true
\*   "named" r => typeof r === "object" && r !== null && "name" in r
\*   "id"    r => typeof r === "object" && r !== null && r.id === v,
\*           for v 1 and for v undefined
FilterSet ==
    {[kind |-> "all", v |-> Undefined], [kind |-> "named", v |-> Undefined]}
    \cup {[kind |-> "id", v |-> Num(1)], [kind |-> "id", v |-> Undefined]}

(***************************************************************************)
(* Outcomes of a call.                                                     *)
(***************************************************************************)
Return(v) == [kind |-> "return", val |-> v, err |-> ""]

Throw(e) == [kind |-> "throw", val |-> Undefined, err |-> e]

\* A call: the method, its arguments, and what Date.now() returned to it (0
\* for the methods that do not ask the time).
Call(name, id, arg, now) == [name |-> name, id |-> id, arg |-> arg, now |-> now]

(***************************************************************************)
(* State.                                                                  *)
(***************************************************************************)
VARIABLES
    exists,   \* fs.existsSync(filePath)
    file,     \* the text of the file at filePath (in the two-process runs: its bytes)
    clock,    \* the time: what Date.now() returned last (1 at construction)
    op,       \* the last call: method name and arguments
    result,   \* what the last call returned or threw
    before,   \* the text of the file when the last call started
    existed,  \* whether the file was there when the last call started
    mem,      \* the array the last call passed to this.write (data / newData)
    proc,     \* per instance of the two-process runs: where its call stands
    race      \* the last write that overwrote a write it had not read

vars == <<exists, file, clock, op, result, before, existed, mem, proc, race>>

\* The two instances of the two-process runs.
Instances == {1, 2}

Idle == [pc |-> "idle", call |-> Call("", Undefined, Undefined, 0),
         buf |-> <<>>, snapshot |-> Return(Undefined), overtaken |-> FALSE,
         out |-> [wrote |-> FALSE, data |-> Undefined, result |-> Return(Undefined)]]

NoRace == [happened |-> FALSE, base |-> Undefined, first |-> Undefined,
           call |-> Call("", Undefined, Undefined, 0),
           result |-> Return(Undefined), doc |-> Undefined, under |-> <<>>]

(***************************************************************************)
(* The methods of LocalJSONDB, as functions of the file text.              *)
(***************************************************************************)
\* read(): fs.readFileSync + JSON.parse.  No check on the parsed value.
read(present, text) ==
    IF ~present THEN Throw("ENOENT")
    ELSE LET r == JSON_parse(text) IN
         IF r.ok THEN Return(r.val) ELSE Throw("SyntaxError")

\* Variant: JSON.stringify([data], null, 2), the value wrapped in one more
\* array.
write_Wrapped(data) == JSON_stringify(Arr(<<data>>), 2, 0)

\* write(data): the text written, JSON.stringify(data, null, 2), when
\* StringifyGivesText(data); otherwise fs.writeFileSync throws and nothing is
\* written.
write(data) == JSON_stringify(data, 2, 0)

\* { id: Date.now(), ...record }
newRecord(now, record) ==
    Obj(SpreadInto(<<Member(Units("id"), Num(now))>>, SpreadSource(record)))

\* Variant: data.unshift(x), the new element goes to the front.
push_Unshift(data, x) == [data EXCEPT !.m = <<Member(<<>>, x)>> \o @]

\* data.push(x)
push(data, x) == [data EXCEPT !.m = Append(@, Member(<<>>, x))]

\* record.id on an element of the array.
IdOf(record) == Get(record, Units("id"))

\* Reading .id of null (or undefined) throws a TypeError.
IdThrows(record) == record.t \in {"null", "undefined"}

\* Variant: data.findLastIndex, the last position that matches.
findIndex_Last(data, id) ==
    LET hit(i) == IdThrows(At(data, i)) \/ StrictEquals(IdOf(At(data, i)), id)
        hits == {i \in 1..length(data) : hit(i)}
    IN  IF hits = {} THEN 0 ELSE CHOOSE i \in hits : \A j \in hits : j <= i

\* data.findIndex((record) => record.id === id): the first position (from 1)
\* at which the callback returns true or throws; 0 when there is none (-1 in
\* the source).
findIndex(data, id) ==
    LET hit(i) == IdThrows(At(data, i)) \/ StrictEquals(IdOf(At(data, i)), id)
        hits == {i \in 1..length(data) : hit(i)}
    IN  IF hits = {} THEN 0 ELSE CHOOSE i \in hits : \A j \in hits : i <= j

\* Variant: the record is replaced by updatedFields instead of merged.
updatedRecord_Replace(old, updatedFields) ==
    Obj(SpreadInto(<<>>, SpreadSource(updatedFields)))

\* Variant: { ...data[index], ...updatedFields, id: data[index].id }, the id
\* of the stored record is put back after the merge.
updatedRecord_KeepsId(old, updatedFields) ==
    Obj(SetMember(SpreadInto(SpreadInto(<<>>, SpreadSource(old)), SpreadSource(updatedFields)),
                  Units("id"), IdOf(old)))

\* { ...data[index], ...updatedFields }
updatedRecord(old, updatedFields) ==
    Obj(SpreadInto(SpreadInto(<<>>, SpreadSource(old)), SpreadSource(updatedFields)))

\* data[index] = x
SetAt(data, index, x) == [data EXCEPT !.m[index] = Member(<<>>, x)]

\* Variant: only the first record with the id is removed.
newData_FirstOnly(data, id) ==
    LET hits == {i \in 1..length(data) : StrictEquals(IdOf(At(data, i)), id)}
        first == CHOOSE i \in hits : \A j \in hits : i <= j
    IN  IF hits = {} THEN data
        ELSE [data EXCEPT !.m = SubSeq(@, 1, first - 1) \o SubSeq(@, first + 1, Len(@))]

\* Variant: data.filter((record) => record.id === id), the records with the
\* id are the ones kept.
newData_KeepsMatches(data, id) ==
    [data EXCEPT !.m = SelectSeq(@, LAMBDA e : StrictEquals(IdOf(e.v), id))]

\* data.filter((record) => record.id !== id)
newData(data, id) ==
    [data EXCEPT !.m = SelectSeq(@, LAMBDA e : ~StrictEquals(IdOf(e.v), id))]

\* The callback of update and delete throws on some element it visits.
AnyIdThrows(data) == \E i \in 1..length(data) : IdThrows(At(data, i))

\* filterFn(r).  typeof r is "object" for objects and for arrays; an array
\* has neither a property name nor a property id.
Matches(f, r) ==
    CASE f.kind = "all" -> TRUE
      [] f.kind = "named" -> IsObject(r) /\ Units("name") \in Keys(r)
      [] f.kind = "id" -> (IsObject(r) \/ IsArray(r)) /\ StrictEquals(IdOf(r), f.v)

\* Variant: the records that pass come back newest first.
filter_Reversed(data, filterFn) ==
    LET kept == SelectSeq(data.m, LAMBDA e : Matches(filterFn, e.v))
    IN  [data EXCEPT !.m = [i \in 1..Len(kept) |-> kept[Len(kept) + 1 - i]]]

\* data.filter(filterFn)
filter(data, filterFn) ==
    [data EXCEPT !.m = SelectSeq(@, LAMBDA e : Matches(filterFn, e.v))]

(***************************************************************************)
(* The methods after this.read(): r is what read() returned or threw, and  *)
(* the value is what the method then does: whether it calls this.write,    *)
(* the array it passes to it, and what it returns or throws.               *)
(***************************************************************************)
Wrote(data, outcome) == [wrote |-> TRUE, data |-> data, result |-> outcome]

NotWrote(outcome) == [wrote |-> FALSE, data |-> Undefined, result |-> outcome]

\* Variant: a file that cannot be read or parsed is taken for an empty
\* document (try { data = this.read() } catch { data = [] }).
create_RecoversFromBadFile(r, now, record) ==
    IF r.kind = "throw"
    THEN Wrote(push(Arr(<<>>), newRecord(now, record)), Return(newRecord(now, record)))
    ELSE IF ~IsArray(r.val) THEN NotWrote(Throw("TypeError"))
    ELSE Wrote(push(r.val, newRecord(now, record)), Return(newRecord(now, record)))

\* create(record); now is Date.now().  data.push throws when data is not an
\* array.
create(r, now, record) ==
    IF r.kind = "throw" THEN NotWrote(r)
    ELSE IF ~IsArray(r.val) THEN NotWrote(Throw("TypeError"))
    ELSE Wrote(push(r.val, newRecord(now, record)), Return(newRecord(now, record)))

\* Variant: a record that is not found is added (upsert).
update_Upsert(r, id, updatedFields) ==
    IF r.kind = "throw" THEN NotWrote(r)
    ELSE IF ~IsArray(r.val) THEN NotWrote(Throw("TypeError"))
    ELSE LET data == r.val
             index == findIndex(data, id)
         IN  IF index = 0
             THEN Wrote(push(data, updatedRecord(Undefined, updatedFields)),
                        Return(updatedRecord(Undefined, updatedFields)))
             ELSE IF IdThrows(At(data, index)) THEN NotWrote(Throw("TypeError"))
             ELSE Wrote(SetAt(data, index, updatedRecord(At(data, index), updatedFields)),
                        Return(updatedRecord(At(data, index), updatedFields)))

\* Variant: the merged record is taken out of its place and pushed at the end.
update_MovesToEnd(r, id, updatedFields) ==
    IF r.kind = "throw" THEN NotWrote(r)
    ELSE IF ~IsArray(r.val) THEN NotWrote(Throw("TypeError"))
    ELSE LET data == r.val
             index == findIndex(data, id)
             rest == [data EXCEPT !.m = SubSeq(@, 1, index - 1) \o SubSeq(@, index + 1, Len(@))]
         IN  IF index = 0 THEN NotWrote(Return(Null))
             ELSE IF IdThrows(At(data, index)) THEN NotWrote(Throw("TypeError"))
             ELSE Wrote(push(rest, updatedRecord(At(data, index), updatedFields)),
                        Return(updatedRecord(At(data, index), updatedFields)))

\* update(id, updatedFields).  data.findIndex throws when data is not an
\* array, and its callback throws on a null element.
update(r, id, updatedFields) ==
    IF r.kind = "throw" THEN NotWrote(r)
    ELSE IF ~IsArray(r.val) THEN NotWrote(Throw("TypeError"))
    ELSE LET data == r.val
             index == findIndex(data, id)
         IN  IF index = 0 THEN NotWrote(Return(Null))
             ELSE IF IdThrows(At(data, index)) THEN NotWrote(Throw("TypeError"))
             ELSE Wrote(SetAt(data, index, updatedRecord(At(data, index), updatedFields)),
                        Return(updatedRecord(At(data, index), updatedFields)))

\* Variant: the array read is written back instead of the filtered one.
delete_WritesData(r, id) ==
    IF r.kind = "throw" THEN NotWrote(r)
    ELSE IF ~IsArray(r.val) \/ AnyIdThrows(r.val) THEN NotWrote(Throw("TypeError"))
    ELSE IF length(newData(r.val, id)) = length(r.val) THEN NotWrote(Return(False))
    ELSE Wrote(r.val, Return(True))

\* delete(id).  data.filter throws when data is not an array, and its
\* callback throws on a null element.
delete(r, id) ==
    IF r.kind = "throw" THEN NotWrote(r)
    ELSE IF ~IsArray(r.val) \/ AnyIdThrows(r.val) THEN NotWrote(Throw("TypeError"))
    ELSE IF length(newData(r.val, id)) = length(r.val) THEN NotWrote(Return(False))
    ELSE Wrote(newData(r.val, id), Return(True))

\* query(filterFn)
query(r, filterFn) ==
    IF r.kind = "throw" THEN NotWrote(r)
    ELSE IF ~IsArray(r.val) THEN NotWrote(Throw("TypeError"))
    ELSE NotWrote(Return(filter(r.val, filterFn)))

(***************************************************************************)
(* Actions: one per method call.                                           *)
(***************************************************************************)
Init ==
    \* new LocalJSONDB(filePath) on a path with no file: JSON.stringify([]).
    /\ exists = TRUE
    /\ file = JSON_stringify(Arr(<<>>), 0, 0)
    /\ clock = 1
    /\ op = Call("constructor", Undefined, Undefined, 0)
    /\ result = Return(Undefined)
    /\ before = <<>>
    /\ existed = FALSE
    /\ mem = Undefined
    /\ proc = [i \in Instances |-> Idle]
    /\ race = NoRace

\* The end of a call: what it did (out) becomes visible.  this.write throws
\* before it touches the file when JSON.stringify gives no text.
Finish(call, out) ==
    /\ op' = call
    /\ before' = file
    /\ existed' = exists
    /\ mem' = out.data
    /\ IF out.wrote /\ StringifyGivesText(out.data)
       THEN result' = out.result /\ file' = write(out.data) /\ exists' = TRUE
       ELSE /\ result' = IF out.wrote THEN Throw("TypeError") ELSE out.result
            /\ UNCHANGED <<file, exists>>
    /\ clock' = IF call.name = "create" THEN call.now ELSE clock
    /\ UNCHANGED <<proc, race>>

\* Variant: the constructor writes [] whether or not the file is there.
constructor_AlwaysInit ==
    /\ op' = Call("constructor", Undefined, Undefined, 0)
    /\ result' = Return(Undefined)
    /\ before' = file
    /\ existed' = exists
    /\ mem' = Undefined
    /\ file' = JSON_stringify(Arr(<<>>), 0, 0)
    /\ exists' = TRUE
    /\ UNCHANGED <<clock, proc, race>>

\* new LocalJSONDB(filePath): the file is written only when it is not there.
constructor ==
    /\ op' = Call("constructor", Undefined, Undefined, 0)
    /\ result' = Return(Undefined)
    /\ before' = file
    /\ existed' = exists
    /\ mem' = Undefined
    /\ IF ~exists
       THEN file' = JSON_stringify(Arr(<<>>), 0, 0) /\ exists' = TRUE
       ELSE UNCHANGED <<file, exists>>
    /\ UNCHANGED <<clock, proc, race>>

Read ==
    /\ op' = Call("read", Undefined, Undefined, 0)
    /\ result' = read(exists, file)
    /\ before' = file
    /\ existed' = exists
    /\ mem' = Undefined
    /\ UNCHANGED <<exists, file, clock, proc, race>>

Write(data) ==
    /\ op' = Call("write", Undefined, data, 0)
    /\ before' = file
    /\ existed' = exists
    /\ mem' = data
    /\ IF StringifyGivesText(data)
       THEN result' = Return(Undefined) /\ file' = write(data) /\ exists' = TRUE
       ELSE \* fs.writeFileSync(filePath, undefined) throws ERR_INVALID_ARG_TYPE
            result' = Throw("TypeError") /\ UNCHANGED <<file, exists>>
    /\ UNCHANGED <<clock, proc, race>>

\* now is what Date.now() returns to the call.
Create(record, now, r) ==
    /\ (r.kind = "return" /\ IsArray(r.val)) => length(r.val) < MaxRecords
    /\ Finish(Call("create", Undefined, record, now), create(r, now, record))

Update(id, updatedFields, r) ==
    Finish(Call("update", id, updatedFields, 0), update(r, id, updatedFields))

Delete(id, r) ==
    Finish(Call("delete", id, Undefined, 0), delete(r, id))

Query(filterFn, r) ==
    Finish(Call("query", filterFn.v, Str(Units(filterFn.kind)), 0), query(r, filterFn))

\* The caller's db.write(db.read()): read() throws before write is entered,
\* or write persists what read returned.
writeRead(r) ==
    IF r.kind = "throw" THEN NotWrote(r) ELSE Wrote(r.val, Return(Undefined))

WriteRead(r) ==
    Finish(Call("writeRead", Undefined, Undefined, 0), writeRead(r))

Next ==
    \/ constructor
    \/ Read
    \/ \E data \in WriteSet : Write(data)
    \/ LET r == read(exists, file) IN
       \E record \in FieldsSet, now \in Times(clock) : Create(record, now, r)
    \/ LET r == read(exists, file) IN
       \E id \in IdSet, updatedFields \in FieldsSet : Update(id, updatedFields, r)
    \/ LET r == read(exists, file) IN \E id \in IdSet : Delete(id, r)
    \/ LET r == read(exists, file) IN \E filterFn \in FilterSet : Query(filterFn, r)
    \/ LET r == read(exists, file) IN WriteRead(r)

Spec == Init /\ [][Next]_vars

(***************************************************************************)
(* The file system under the instance.  The file is an ordinary file that  *)
(* other programs can remove or cut short between two calls; after that    *)
(* fs.existsSync is false, or JSON.parse throws on what readFileSync       *)
(* returns.                                                                *)
(***************************************************************************)
\* The file is removed from outside.
Unlink ==
    /\ exists
    /\ op' = Call("unlink", Undefined, Undefined, 0)
    /\ result' = Return(Undefined)
    /\ before' = file
    /\ existed' = exists
    /\ mem' = Undefined
    /\ exists' = FALSE
    /\ file' = <<>>
    /\ UNCHANGED <<clock, proc, race>>

\* The file is cut short from outside: its last token is lost, and what is
\* left is not JSON.
Truncate ==
    /\ exists
    /\ read(exists, file).kind = "return"
    /\ op' = Call("truncate", Undefined, Undefined, 0)
    /\ result' = Return(Undefined)
    /\ before' = file
    /\ existed' = exists
    /\ mem' = Undefined
    /\ file' = SubSeq(file, 1, Len(file) - 1)
    /\ UNCHANGED <<exists, clock, proc, race>>

NextEnv ==
    \/ Next
    \/ Unlink
    \/ Truncate

SpecEnv == Init /\ [][NextEnv]_vars

(***************************************************************************)
(* Two LocalJSONDB instances on the same path, in two processes.  Each     *)
(* makes one mutating call; the steps that interleave are those of the     *)
(* file system, and the file is held as its bytes.  The readFileSync of    *)
(* this.read() opens the file and then reads it piece by piece, each piece *)
(* from where the last one ended, until a read returns nothing; the        *)
(* writeFileSync of this.write() opens the file with truncation and then   *)
(* writes the text.  Between any two of these steps the other instance can *)
(* read or write the file.                                                 *)
(***************************************************************************)
\* The documents the file may hold when the two calls start: what up to two
\* create calls at time 1 leave in a new file, and a document whose record
\* has a name that is written with escapes and in one, three and four bytes
\* (a quote, U+FFE6, a backslash, U+0060 and U+1F600).
StartDocs ==
    LET one == {push(Arr(<<>>), newRecord(1, f)) : f \in FieldsSet}
    IN  {Arr(<<>>)} \cup one \cup {push(d, newRecord(1, f)) : d \in one, f \in FieldsSet}
        \cup {push(Arr(<<>>), newRecord(1, Obj(<<Member(Units("name"), Str(<<34, 65510, 92, 96, 55357, 56832>>))>>)))}

\* The calls an instance may make (name, id, record / updatedFields).
MutatingCalls ==
    {Call("create", Undefined, f, 0) : f \in FieldsSet}
    \cup {Call("update", i, f, 0) : i \in IdSet, f \in FieldsSet}
    \cup {Call("delete", i, Undefined, 0) : i \in IdSet}

\* The most bytes that one read of fs.readFileSync takes from the file.  The
\* files here are shorter, so the first read takes the whole file, and the
\* next one finds nothing, or what a write has put behind that place since.
ChunkBytes == 8192

\* JSON.parse on the bytes that fs.readFileSync has read.
parseBytes(present, bytes) == read(present, Scan(readFileSync(bytes)))

InitConc ==
    /\ exists = TRUE
    /\ file \in {writeFileSync(write(d)) : d \in StartDocs}
    /\ clock = 1
    /\ op = Call("constructor", Undefined, Undefined, 0)
    /\ result = Return(Undefined)
    /\ before = <<>>
    /\ existed = TRUE
    /\ mem = Undefined
    /\ proc = [i \in Instances |-> Idle]
    /\ race = NoRace

\* Instance i enters a method and the readFileSync of this.read() opens the
\* file (ENOENT when there is none).
OpenRead(i, call) ==
    /\ proc[i].pc = "idle"
    /\ proc' = [proc EXCEPT ![i] =
                  IF exists
                  THEN [Idle EXCEPT !.pc = "reading", !.call = call]
                  ELSE [Idle EXCEPT !.pc = "loaded", !.call = call,
                                    !.snapshot = Throw("ENOENT")]]
    /\ UNCHANGED <<exists, file, clock, op, result, before, existed, mem, race>>

\* One read of readFileSync: the next bytes of the file as it is now, from
\* the place the bytes read so far end at, ChunkBytes at most.  A read that
\* finds no byte there ends readFileSync, and JSON.parse takes what was read.
ReadChunk(i) ==
    /\ proc[i].pc = "reading"
    /\ LET at == Len(proc[i].buf)
           upto == IF Len(file) < at + ChunkBytes THEN Len(file) ELSE at + ChunkBytes
       IN  proc' = [proc EXCEPT ![i] =
                      IF upto > at
                      THEN [@ EXCEPT !.buf = @ \o SubSeq(file, at + 1, upto)]
                      ELSE [@ EXCEPT !.pc = "loaded", !.buf = <<>>,
                                     !.snapshot = parseBytes(TRUE, proc[i].buf)]]
    /\ UNCHANGED <<exists, file, clock, op, result, before, existed, mem, race>>

\* What the method of call makes of what it read.
Dispatch(call, r, now) ==
    CASE call.name = "create" -> create(r, now, call.arg)
      [] call.name = "update" -> update(r, call.id, call.arg)
      [] call.name = "delete" -> delete(r, call.id)

\* Variant: the method reads the file again when it computes.
Compute_Reloads(i, now) ==
    /\ proc[i].pc = "loaded"
    /\ proc[i].call.name # "create" => now = clock
    /\ LET call == [proc[i].call EXCEPT !.now = IF proc[i].call.name = "create" THEN now ELSE 0]
           out == Dispatch(call, parseBytes(exists, file), now)
       IN  proc' = [proc EXCEPT ![i] =
                      [@ EXCEPT !.pc = IF out.wrote THEN "computed" ELSE "done",
                                !.call = call, !.out = out]]
    /\ clock' = now
    /\ UNCHANGED <<exists, file, op, result, before, existed, mem, race>>

\* Instance i runs its method on what it read, up to the call of this.write
\* or to a return or throw before it (now is what Date.now() returns to
\* create).
Compute(i, now) ==
    /\ proc[i].pc = "loaded"
    /\ proc[i].call.name # "create" => now = clock
    /\ LET call == [proc[i].call EXCEPT !.now = IF proc[i].call.name = "create" THEN now ELSE 0]
           out == Dispatch(call, proc[i].snapshot, now)
       IN  proc' = [proc EXCEPT ![i] =
                      [@ EXCEPT !.pc = IF out.wrote THEN "computed" ELSE "done",
                                !.call = call, !.out = out]]
    /\ clock' = now
    /\ UNCHANGED <<exists, file, op, result, before, existed, mem, race>>

\* fs.writeFileSync, first half: the file is opened for writing, which cuts
\* it to length 0.
Open(i) ==
    /\ proc[i].pc = "computed"
    /\ file' = <<>>
    /\ exists' = TRUE
    /\ proc' = [proc EXCEPT ![i].pc = "opened"]
    /\ UNCHANGED <<clock, op, result, before, existed, mem, race>>

\* fs.writeFileSync, second half: the text goes into the file from position
\* 0, over whatever the file holds by now.
Persist(i) ==
    /\ proc[i].pc = "opened"
    /\ file' = Overlay(writeFileSync(write(proc[i].out.data)), file)
    /\ proc' = [j \in Instances |->
                 IF j = i THEN [proc[i] EXCEPT !.pc = "done"]
                 ELSE IF \/ proc[j].pc \in {"loaded", "computed", "opened"}
                         \/ proc[j].pc = "reading" /\ proc[j].buf # <<>>
                 THEN [proc[j] EXCEPT !.overtaken = TRUE]
                 ELSE proc[j]]
    /\ race' = IF proc[i].overtaken
               THEN [happened |-> TRUE, base |-> proc[i].snapshot.val,
                     first |-> parseBytes(exists, file).val, call |-> proc[i].call,
                     result |-> proc[i].out.result, doc |-> proc[i].out.data,
                     under |-> file]
               ELSE race
    /\ UNCHANGED <<exists, clock, op, result, before, existed, mem>>

NextConc ==
    \/ \E i \in Instances, call \in MutatingCalls : OpenRead(i, call)
    \/ \E i \in Instances : ReadChunk(i)
    \/ \E i \in Instances, now \in Times(clock) : Compute(i, now)
    \/ \E i \in Instances : Open(i)
    \/ \E i \in Instances : Persist(i)

SpecConc == InitConc /\ [][NextConc]_vars

(***************************************************************************)
(* Vocabulary of the properties.                                           *)
(***************************************************************************)
\* What read() returned when the last call started, and what it returns now.
Prior == read(existed, before)

Current == read(exists, file)

\* A Document: an array whose elements are all records (objects).
IsDocument(v) == IsArray(v) /\ \A i \in 1..length(v) : IsObject(At(v, i))

PriorIsDocument == Prior.kind = "return" /\ IsDocument(Prior.val)

\* Record rec carries the id x.
HasId(rec, x) == IsObject(rec) /\ Units("id") \in Keys(rec) /\ Get(rec, Units("id")) = x

\* The positions of document d whose record carries the id x.
Positions(d, x) == {i \in 1..length(d) : HasId(At(d, i), x)}

Succeeded(name) == op.name = name /\ result.kind = "return"

\* Document d2 is document d with the call applied, res being what the call
\* returned: create appends the returned record; update puts the returned
\* record in place of the first record carrying the id; delete drops the
\* records carrying the id.
AppliedTo(call, res, d, d2) ==
    CASE call.name = "create" ->
            d2 = [d EXCEPT !.m = Append(@, Member(<<>>, res.val))]
      [] call.name = "update" ->
            /\ Positions(d, call.id) # {}
            /\ LET at == CHOOSE i \in Positions(d, call.id) :
                             \A j \in Positions(d, call.id) : i <= j
               IN  d2 = [d EXCEPT !.m[at] = Member(<<>>, res.val)]
      [] call.name = "delete" ->
            d2 = [d EXCEPT !.m = SelectSeq(@, LAMBDA e : ~HasId(e.v, call.id))]

(***************************************************************************)
(* C1.  After each successful create, update or delete, read() returns     *)
(* exactly the document the operation computed: the array it wrote, or,    *)
(* when it wrote nothing, the document that was there before.              *)
(***************************************************************************)
C1_ReadYourWrites ==
    (op.name \in {"create", "update", "delete"} /\ result.kind = "return") =>
        IF mem = Undefined
        THEN file = before /\ Current = Prior
        ELSE Current = Return(mem) /\ AppliedTo(op, result, Prior.val, mem)

C1_Witness ==
    /\ Succeeded("update")
    /\ mem # Undefined
    /\ length(mem) = 2
    /\ mem # Prior.val
    /\ Current = Return(mem)

(***************************************************************************)
(* C2.  create(fields) with an id field among fields returns and persists  *)
(* a record whose id is the synthesized identifier (Date.now() of the      *)
(* call), not the value the caller supplied.                               *)
(***************************************************************************)
C2_CreateOverwritesSuppliedId ==
    (Succeeded("create") /\ Units("id") \in Keys(op.arg)) =>
        /\ HasId(result.val, Num(op.now))
        /\ Current.kind = "return"
        /\ HasId(At(Current.val, length(Current.val)), Num(op.now))

(***************************************************************************)
(* C3.  create(fields) returns a record with every supplied non-id field   *)
(* at its supplied value and an id that is neither null nor absent.        *)
(***************************************************************************)
C3_CreateReturnsFieldsAndId ==
    Succeeded("create") =>
        /\ \A k \in Keys(op.arg) \ {Units("id")} : Get(result.val, k) = Get(op.arg, k)
        /\ Units("id") \in Keys(result.val)
        /\ Get(result.val, Units("id")).t \notin {"null", "undefined"}

(***************************************************************************)
(* C4.  The id of the record create adds differs from the id of every      *)
(* record that was in the document before the call.                        *)
(***************************************************************************)
C4_CreatedIdIsUnique ==
    (Succeeded("create") /\ PriorIsDocument) =>
        Positions(Prior.val, Get(result.val, Units("id"))) = {}

(***************************************************************************)
(* C5.  After any sequence of public calls the file holds a JSON array.    *)
(***************************************************************************)
C5_FileIsJsonArray ==
    exists => (Current.kind = "return" /\ IsArray(Current.val))

(***************************************************************************)
(* C6.  When the file content is not valid JSON, or is valid JSON that is  *)
(* not an array, read() fails, and so do create, update, delete and query. *)
(***************************************************************************)
C6_NonArrayContentFails ==
    (/\ op.name \in {"read", "create", "update", "delete", "query"}
     /\ ~(Prior.kind = "return" /\ IsArray(Prior.val)))
        => result.kind = "throw"

(***************************************************************************)
(* C7 as stated.  Two instances on the same path, both having read the     *)
(* file before either writes: after both writes the file is exactly the    *)
(* document the last writer computed, which is its own call applied to     *)
(* what it had read; no interleaving leaves a file that mixes parts of the *)
(* two documents.                                                          *)
(***************************************************************************)
C7_LostUpdate ==
    race.happened =>
        /\ parseBytes(exists, file) = Return(race.doc)
        /\ AppliedTo(race.call, race.result, race.base, race.doc)

(***************************************************************************)
(* C7.  Two instances on the same path, both having read the file before   *)
(* either writes: the document the last writer computed is its own call    *)
(* applied to what it had read (the first writer's change plays no part in *)
(* it), and the file begins with the text of that document.  Either the    *)
(* file is exactly that text, and read() returns the last writer's         *)
(* document; or, when the last writer opened the file before the first     *)
(* writer wrote and its text is the shorter one, the file goes on with the  *)
(* bytes that the first writer's text has beyond that length, and read()   *)
(* throws a SyntaxError.                                                   *)
(***************************************************************************)
C7_LostUpdateOrTornFile ==
    race.happened =>
        LET text == writeFileSync(write(race.doc))
            rest == SubSeq(file, Len(text) + 1, Len(file))
        IN  /\ AppliedTo(race.call, race.result, race.base, race.doc)
            /\ Len(file) >= Len(text)
            /\ SubSeq(file, 1, Len(text)) = text
            /\ IF rest = <<>>
               THEN parseBytes(exists, file) = Return(race.doc)
               ELSE /\ parseBytes(exists, file) = Throw("SyntaxError")
                    /\ Len(file) = Len(race.under)
                    /\ rest = SubSeq(race.under, Len(text) + 1, Len(race.under))
                    /\ race.under = writeFileSync(write(race.first))

\* Both instances created a record; the file holds only the second one's.
C7_Witness ==
    /\ race.happened
    /\ \A i \in Instances : proc[i].pc = "done" /\ proc[i].call.name = "create"
    /\ length(race.first) = length(race.base) + 1
    /\ parseBytes(exists, file).kind = "return"
    /\ length(parseBytes(exists, file).val) = length(race.base) + 1
    /\ At(race.first, length(race.first)) # At(parseBytes(exists, file).val, length(race.base) + 1)

(***************************************************************************)
(* C8.  update(id, partialFields) with an id no record of the document     *)
(* carries returns null and leaves the file content as it was.             *)
(***************************************************************************)
C8_UpdateMissingIdIsNoOp ==
    (op.name = "update" /\ PriorIsDocument /\ Positions(Prior.val, op.id) = {}) =>
        /\ result = Return(Null)
        /\ file = before

C8_Witness ==
    /\ op.name = "update"
    /\ PriorIsDocument
    /\ length(Prior.val) = 2
    /\ Positions(Prior.val, op.id) = {}
    /\ result = Return(Null)

(***************************************************************************)
(* C9.  update(id, partialFields) with an id some record carries returns   *)
(* the first such record with partialFields merged on top (fields of       *)
(* partialFields at their new value, every other field at its old value),  *)
(* and the persisted document has the merged record at that position, the  *)
(* same length, and every other record unchanged.                          *)
(***************************************************************************)
C9_UpdateMergesInPlace ==
    (op.name = "update" /\ PriorIsDocument /\ Positions(Prior.val, op.id) # {}) =>
        LET d == Prior.val
            at == CHOOSE i \in Positions(d, op.id) :
                      \A j \in Positions(d, op.id) : i <= j
            old == At(d, at)
            ret == result.val
        IN  /\ result.kind = "return"
            /\ IsObject(ret)
            /\ Keys(ret) = Keys(old) \cup Keys(op.arg)
            /\ \A k \in Keys(op.arg) : Get(ret, k) = Get(op.arg, k)
            /\ \A k \in Keys(old) \ Keys(op.arg) : Get(ret, k) = Get(old, k)
            /\ Current.kind = "return"
            /\ IsArray(Current.val)
            /\ length(Current.val) = length(d)
            /\ At(Current.val, at) = ret
            /\ \A j \in 1..length(d) : j # at => At(Current.val, j) = At(d, j)

\* An update that changes a field and keeps one, on the second of two records.
C9_Witness ==
    /\ Succeeded("update")
    /\ PriorIsDocument
    /\ length(Prior.val) = 2
    /\ Positions(Prior.val, op.id) = {2}
    /\ Keys(At(Prior.val, 2)) \ Keys(op.arg) # {}
    /\ At(Current.val, 2) # At(Prior.val, 2)
    /\ At(Current.val, 2) = result.val

(***************************************************************************)
(* C10.  delete(id) with an id no record carries returns false and leaves  *)
(* the file content as it was; with an id at least one record carries it   *)
(* returns true and the next read() holds no record with that id.          *)
(***************************************************************************)
C10_DeleteRemovesEveryMatch ==
    (op.name = "delete" /\ PriorIsDocument) =>
        IF Positions(Prior.val, op.id) = {}
        THEN result = Return(False) /\ file = before
        ELSE /\ result = Return(True)
             /\ Current.kind = "return"
             /\ IsArray(Current.val)
             /\ Positions(Current.val, op.id) = {}

\* A delete of an id that two records carried.
C10_Witness ==
    /\ Succeeded("delete")
    /\ PriorIsDocument
    /\ Cardinality(Positions(Prior.val, op.id)) = 2
    /\ result = Return(True)
    /\ Current = Return(Arr(<<>>))

(***************************************************************************)
(* C11.  query(predicate) leaves the file as it was, whatever the          *)
(* predicate, and on a file that holds an array it returns exactly the     *)
(* elements for which the predicate is true, in the order they have in     *)
(* the file.                                                               *)
(***************************************************************************)
C11_QueryIsPureFilter ==
    op.name = "query" =>
        /\ file = before
        /\ exists = existed
        /\ (Prior.kind = "return" /\ IsArray(Prior.val)) =>
              LET d == Prior.val
                  f == CHOOSE g \in FilterSet : Units(g.kind) = op.arg.s /\ g.v = op.id
                  hits == {i \in 1..length(d) : Matches(f, At(d, i))}
                  rank(i) == Cardinality({j \in hits : j <= i})
              IN  /\ result.kind = "return"
                  /\ IsArray(result.val)
                  /\ length(result.val) = Cardinality(hits)
                  /\ \A i \in hits : At(result.val, rank(i)) = At(d, i)

\* A query that passes over the first of two records and returns the second.
C11_Witness ==
    /\ op.name = "query"
    /\ PriorIsDocument
    /\ length(Prior.val) = 2
    /\ result.kind = "return"
    /\ length(result.val) = 1
    /\ At(result.val, 1) = At(Prior.val, 2)
    /\ At(Prior.val, 1) # At(Prior.val, 2)

(***************************************************************************)
(* C12.  write(read()) on a file that read() accepts, the compact [] of    *)
(* the constructor included, leaves the document as it was: read() returns *)
(* after it what it returned before it, and a second write(read()) would   *)
(* write the very text that is in the file.                                *)
(***************************************************************************)
C12_WriteReadRoundTrip ==
    (op.name = "writeRead" /\ Prior.kind = "return") =>
        /\ result = Return(Undefined)
        /\ Current = Prior
        /\ write(Current.val) = file

\* write(read()) on a document of two records.
C12_Witness ==
    /\ op.name = "writeRead"
    /\ PriorIsDocument
    /\ length(Prior.val) = 2
    /\ At(Prior.val, 1) # At(Prior.val, 2)
    /\ Current = Prior

(***************************************************************************)
(* C13.  update(id, partialFields) with no id field in partialFields       *)
(* leaves the ids of the document as they were, position by position: the  *)
(* document has the same length and every position carries the id it       *)
(* carried before.                                                         *)
(***************************************************************************)
C13_UpdateKeepsIds ==
    (op.name = "update" /\ PriorIsDocument /\ Units("id") \notin Keys(op.arg)) =>
        /\ Current.kind = "return"
        /\ IsArray(Current.val)
        /\ length(Current.val) = length(Prior.val)
        /\ \A i \in 1..length(Prior.val) :
              /\ (Units("id") \in Keys(At(Current.val, i))) = (Units("id") \in Keys(At(Prior.val, i)))
              /\ Get(At(Current.val, i), Units("id")) = Get(At(Prior.val, i), Units("id"))

\* An update without an id field that changed a record of a document whose
\* two records carry different ids.
C13_Witness ==
    /\ Succeeded("update")
    /\ Units("id") \notin Keys(op.arg)
    /\ PriorIsDocument
    /\ length(Prior.val) = 2
    /\ Get(At(Prior.val, 1), Units("id")) # Get(At(Prior.val, 2), Units("id"))
    /\ Current # Prior

(***************************************************************************)
(* C16.  create(fields) on a file that holds an array succeeds, and the    *)
(* persisted document is then the prior one with exactly one record, the   *)
(* returned one, added at the end: every prior record is at its position   *)
(* with its content.                                                       *)
(***************************************************************************)
C16_CreateAppends ==
    (op.name = "create" /\ Prior.kind = "return" /\ IsArray(Prior.val)) =>
        /\ result.kind = "return"
        /\ Current.kind = "return"
        /\ IsArray(Current.val)
        /\ length(Current.val) = length(Prior.val) + 1
        /\ \A i \in 1..length(Prior.val) : At(Current.val, i) = At(Prior.val, i)
        /\ At(Current.val, length(Current.val)) = result.val

\* A create on a document of one record, of a record unlike that one.
C16_Witness ==
    /\ Succeeded("create")
    /\ PriorIsDocument
    /\ length(Prior.val) = 1
    /\ length(Current.val) = 2
    /\ At(Current.val, 1) = At(Prior.val, 1)
    /\ At(Current.val, 2) # At(Current.val, 1)

(***************************************************************************)
(* C17.  On a document in which several records carry the id,              *)
(* update(id, partialFields) changes the first of them in document order   *)
(* and leaves every other record, the later ones with that id included,    *)
(* as it was, whereas delete(id) removes all of them.                      *)
(***************************************************************************)
C17_DuplicateIds ==
    (/\ op.name \in {"update", "delete"}
     /\ PriorIsDocument
     /\ Cardinality(Positions(Prior.val, op.id)) >= 2) =>
        LET d == Prior.val
            hits == Positions(d, op.id)
            first == CHOOSE i \in hits : \A j \in hits : i <= j
        IN  /\ Current.kind = "return"
            /\ IsArray(Current.val)
            /\ IF op.name = "update"
               THEN /\ result.kind = "return"
                    /\ length(Current.val) = length(d)
                    /\ At(Current.val, first) = result.val
                    /\ \A k \in Keys(op.arg) :
                          Get(At(Current.val, first), k) = Get(op.arg, k)
                    /\ \A j \in 1..length(d) :
                          j # first => At(Current.val, j) = At(d, j)
               ELSE /\ result = Return(True)
                    /\ length(Current.val) = length(d) - Cardinality(hits)
                    /\ Positions(Current.val, op.id) = {}

\* An update on two records with the same id: the first is changed, the
\* second is not.
C17_Witness ==
    /\ Succeeded("update")
    /\ PriorIsDocument
    /\ Positions(Prior.val, op.id) = {1, 2}
    /\ At(Current.val, 1) # At(Prior.val, 1)
    /\ At(Current.val, 2) = At(Prior.val, 2)

(***************************************************************************)
(* C18.  update(id, partialFields) with an id field x in partialFields, on *)
(* a document with a record carrying id: the record at that position then  *)
(* has id x; when x is not the old id, a following update with the old id  *)
(* does not find the record at that position (it returns null when no      *)
(* other record carries the old id, and otherwise leaves that position     *)
(* alone); and when another record carried x, the document now holds two   *)
(* records with id x.                                                      *)
(***************************************************************************)
C18_UpdateOverwritesId ==
    (/\ op.name = "update"
     /\ PriorIsDocument
     /\ Units("id") \in Keys(op.arg)
     /\ Positions(Prior.val, op.id) # {}) =>
        LET d == Prior.val
            hits == Positions(d, op.id)
            at == CHOOSE i \in hits : \A j \in hits : i <= j
            x == Get(op.arg, Units("id"))
        IN  /\ Current.kind = "return"
            /\ IsArray(Current.val)
            /\ HasId(At(Current.val, at), x)
            /\ x # op.id =>
                  /\ findIndex(Current.val, op.id) # at
                  /\ \A f \in FieldsSet :
                        LET again == update(Current, op.id, f)
                        IN  IF hits = {at}
                            THEN again = NotWrote(Return(Null))
                            ELSE again.wrote /\ At(again.data, at) = At(Current.val, at)
            /\ (\E j \in 1..length(d) : j # at /\ HasId(At(d, j), x)) =>
                  Cardinality(Positions(Current.val, x)) >= 2

\* An update that gives a record the id another record carries.
C18_Witness ==
    /\ Succeeded("update")
    /\ PriorIsDocument
    /\ Units("id") \in Keys(op.arg)
    /\ Get(op.arg, Units("id")) # op.id
    /\ Positions(Prior.val, op.id) = {1}
    /\ Positions(Prior.val, Get(op.arg, Units("id"))) = {2}
    /\ Positions(Current.val, Get(op.arg, Units("id"))) = {1, 2}
    /\ Positions(Current.val, op.id) = {}

(***************************************************************************)
(* C19.  delete(id) is a pure filter: the records of the document after it *)
(* are exactly the prior records whose id differs from id, each with its   *)
(* content and in the same relative order, so that a second delete(id)     *)
(* right after it returns false and writes nothing.                        *)
(***************************************************************************)
C19_DeleteIsPureFilter ==
    (op.name = "delete" /\ PriorIsDocument) =>
        LET d == Prior.val
            keep == {i \in 1..length(d) : ~HasId(At(d, i), op.id)}
            rank(i) == Cardinality({j \in keep : j <= i})
        IN  /\ Current.kind = "return"
            /\ IsArray(Current.val)
            /\ length(Current.val) = Cardinality(keep)
            /\ \A i \in keep : At(Current.val, rank(i)) = At(d, i)
            /\ delete(Current, op.id) = NotWrote(Return(False))

\* A delete that removes the first of two records and keeps the second.
C19_Witness ==
    /\ Succeeded("delete")
    /\ PriorIsDocument
    /\ length(Prior.val) = 2
    /\ result = Return(True)
    /\ length(Current.val) = 1
    /\ At(Current.val, 1) = At(Prior.val, 2)
    /\ delete(Current, op.id) = NotWrote(Return(False))

(***************************************************************************)
(* C14.  When the load step of create, update, delete or query fails (the  *)
(* file is not there, or its content is not JSON), the call ends with the  *)
(* very error the load step threw, so it returns no value, and the file is *)
(* as it was before the call: absent if it was absent, else with the same  *)
(* content.                                                                *)
(***************************************************************************)
C14_FailedLoadChangesNothing ==
    (op.name \in {"create", "update", "delete", "query"} /\ Prior.kind = "throw") =>
        /\ result.kind = "throw"
        /\ result = Prior
        /\ exists = existed
        /\ file = before

\* A create on a file whose content is not JSON.
C14_Witness ==
    /\ op.name = "create"
    /\ existed
    /\ Prior = Throw("SyntaxError")
    /\ result = Throw("SyntaxError")
    /\ file = before

(***************************************************************************)
(* C15.  The constructor initializes the file only when it is absent: on a *)
(* path with no file it leaves a file from which read() returns the empty  *)
(* array; on a path with a file it leaves the content as it was, so that   *)
(* read() returns what it returned before the construction.                *)
(***************************************************************************)
C15_ConstructorInitializesOnlyWhenAbsent ==
    op.name = "constructor" =>
        /\ exists
        /\ IF existed
           THEN file = before /\ Current = Prior
           ELSE Current = Return(Arr(<<>>))

\* A construction on a file that holds two records.
C15_Witness ==
    /\ op.name = "constructor"
    /\ existed
    /\ PriorIsDocument
    /\ length(Prior.val) = 2
    /\ Current = Prior
====
